---- MODULE Spec2Model ----
(***************************************************************************)
(* The persistence layer of research-canvas: a document store kept on a    *)
(* blob store (server.js).  Documents are JSON objects, modelled as        *)
(* functions from field names to values: a field that is undefined in      *)
(* JavaScript (and so dropped by JSON.stringify) is a field outside the    *)
(* function's DOMAIN.  Storage paths are tuples of their components        *)
(* ("u1/canvases/c1.json" is <<"u1", "canvases", "c1">>).                  *)
(***************************************************************************)
EXTENDS Integers, Sequences, FiniteSets, TLC

\* blob      the bucket: path -> stored JSON value, for the paths that exist
\* cache     _cache: key -> [d, t]
\* now       Date.now()
\* firestore the legacy source store the migration reads
\* last      the request served last: operation, tenant, id, blob reads made
\* lastWrite the last request served that writes: operation, tenant, id, body
\* resp      the response to the last request
\* calls     the requests in progress, each at an await, with their local values
VARIABLES blob, cache, now, firestore, last, lastWrite, resp, calls, store

vars == <<blob, cache, now, firestore, last, lastWrite, resp, calls, store>>

\* ------------------------------------------------------------- bounds
MaxTicks == 1

\* ---------------------------------------------------------- constants
CACHE_TTL == 60000

Tenants == {"u1", "u2"}
WsIds == {"w1", "w2"}
CvIds == {"c1", "c2"}
NodeIds == {"n1", "n2"}
\* Two updatedAt values, enough for either order of two index entries
Stamps == {1, 2}

\* Node payloads are opaque to the storage layer.  "A" and "B" stand for two
\* non-empty payloads; Falsy is a present but falsy JSON value ("" or 0);
\* JNull is JSON null.
Payloads == {"A", "B"}
Falsy == ""
JNull == "null"
DefaultData == "{type:'text',title:'',content:''}"
FailedData == "{type:'text',title:'(load failed)',content:''}"
Corrupt == "<unparsable>"
Undef == "undefined"

Truthy(v) == v \notin {Falsy, JNull, Undef}

\* ------------------------------------------------------ JSON objects
Has(o, f) == f \in DOMAIN o
Get(o, f) == IF f \in DOMAIN o THEN o[f] ELSE Undef
Without(o, f) == [g \in DOMAIN o \ {f} |-> o[g]]
With(o, f, v) == [g \in DOMAIN o \cup {f} |-> IF g = f THEN v ELSE o[g]]
Pick(o, fs) == [g \in DOMAIN o \cap fs |-> o[g]]
\* A faulty merge in which the fields of the first object win
SpreadKeepsFirst(a, b) == [g \in DOMAIN a \cup DOMAIN b |-> IF g \in DOMAIN a THEN a[g] ELSE b[g]]

\* { ...a, ...b }
Spread(a, b) == [g \in DOMAIN a \cup DOMAIN b |-> IF g \in DOMAIN b THEN b[g] ELSE a[g]]
\* o.f is defined and truthy
HasTruthy(o, f) == f \in DOMAIN o /\ Truthy(o[f])

\* ------------------------------------------------------------- paths
WsPath(u, w) == <<u, "workspaces", w>>
CvPath(u, c) == <<u, "canvases", c>>
BundlePath(u, c) == <<u, "canvas-data", c>>
LegacyDir(u, c) == <<u, "canvas-data", c>>
LegacyPath(u, c, n) == <<u, "canvas-data", c, n>>
IndexPath(u, type) == <<u, IF type = "workspaces" THEN "workspaces-index" ELSE "canvases-index">>
CacheKey(u, type) == <<u, type>>

\* p lies under the directory dir ("dir/" is a prefix of p)
UnderDir(dir, p) == Len(p) > Len(dir) /\ SubSeq(p, 1, Len(dir)) = dir

\* -------------------------------------------------------- blob store
Exists(b, p) == p \in DOMAIN b
WriteJSON(b, p, v) == [q \in DOMAIN b \cup {p} |-> IF q = p THEN v ELSE b[q]]
DeleteFile(b, p) == [q \in DOMAIN b \ {p} |-> b[q]]
\* A faulty bulk delete that deletes nothing
DeleteByPrefixKeepsAll(b, dir) == b

DeleteByPrefix(b, dir) == [q \in {r \in DOMAIN b : ~UnderDir(dir, r)} |-> b[q]]

\* ------------------------------------------------------------- cache
\* A faulty cache whose entries never expire
GetCachedHitNeverExpires(c, k, t) == k \in DOMAIN c

GetCachedHit(c, k, t) == k \in DOMAIN c /\ t - c[k].t < CACHE_TTL
SetCache(c, k, d, t) == [q \in DOMAIN c \cup {k} |-> IF q = k THEN [d |-> d, t |-> t] ELSE c[q]]

\* ------------------------------------------------------------- index
\* The result of readIndex and the cache it leaves behind.
ReadIndex(b, c, t, u, type) ==
    IF GetCachedHit(c, CacheKey(u, type), t)
    THEN [items |-> c[CacheKey(u, type)].d, cache |-> c, reads |-> {}]
    ELSE LET data == IF Exists(b, IndexPath(u, type)) THEN b[IndexPath(u, type)] ELSE <<>>
         IN [items |-> data, cache |-> SetCache(c, CacheKey(u, type), data, t),
             reads |-> {IndexPath(u, type)}]

\* A faulty write path that invalidates the cache entry instead of updating it
WriteIndexInvalidates(b, c, t, u, type, items) ==
    [blob |-> WriteJSON(b, IndexPath(u, type), items),
     cache |-> [q \in DOMAIN c \ {CacheKey(u, type)} |-> c[q]]]

WriteIndex(b, c, t, u, type, items) ==
    [blob |-> WriteJSON(b, IndexPath(u, type), items),
     cache |-> SetCache(c, CacheKey(u, type), items, t)]

\* items.findIndex(i => i.id === id), 0 when there is none
FindIndex(items, id) ==
    IF \E i \in 1..Len(items) : Get(items[i], "id") = id
    THEN CHOOSE i \in 1..Len(items) :
            /\ Get(items[i], "id") = id
            /\ \A j \in 1..(i - 1) : Get(items[j], "id") # id
    ELSE 0

\* items.filter(...): the items at the positions in keep, in order
Filter(items, keep) ==
    LET F[i \in 0..Len(items)] ==
            IF i = 0 THEN <<>>
            ELSE IF i \in keep THEN Append(F[i - 1], items[i]) ELSE F[i - 1]
    IN F[Len(items)]

\* c => c.workspaceId === w  and  c => c.workspaceId !== w
InWorkspace(items, w) == {i \in 1..Len(items) : Get(items[i], "workspaceId") = w}
NotInWorkspace(items, w) == {i \in 1..Len(items) : Get(items[i], "workspaceId") # w}

\* A faulty upsert that appends without looking for the id
UpsertItemsAlwaysAppends(items, item) == Append(items, item)

UpsertItems(items, item) ==
    LET idx == FindIndex(items, Get(item, "id"))
    IN IF idx > 0 THEN [items EXCEPT ![idx] = item] ELSE Append(items, item)

UpsertIndex(b, c, t, u, type, item) ==
    LET r == ReadIndex(b, c, t, u, type)
    IN WriteIndex(b, r.cache, t, u, type, UpsertItems(r.items, item))

\* A faulty removal that filters nothing out
RemoveItemsKeepsAll(items, id) == items

RemoveItems(items, id) == Filter(items, {i \in 1..Len(items) : Get(items[i], "id") # id})

RemoveFromIndex(b, c, t, u, type, id) ==
    LET r == ReadIndex(b, c, t, u, type)
    IN WriteIndex(b, r.cache, t, u, type, RemoveItems(r.items, id))

NodeCount(canvas) == IF Has(canvas, "nodes") THEN Len(canvas.nodes) ELSE 0

CanvasMetaForIndex(canvas) ==
    Spread(Pick(canvas, {"id", "title", "workspaceId", "createdAt", "updatedAt"}),
           [nodeCount |-> NodeCount(canvas)])

\* (b.updatedAt || 0) - (a.updatedAt || 0), Array.prototype.sort is stable
UpdatedAt(o) == IF Has(o, "updatedAt") THEN o.updatedAt ELSE 0

\* x inserted into the sorted list s after every element that does not sort after it
InsertSorted(s, x) ==
    LET k == Cardinality({i \in 1..Len(s) : UpdatedAt(s[i]) >= UpdatedAt(x)})
    IN SubSeq(s, 1, k) \o <<x>> \o SubSeq(s, k + 1, Len(s))

\* A faulty sort that leaves the order it was given
SortKeepsOrder(items) == items

SortByUpdatedAtDesc(items) ==
    LET S[i \in 0..Len(items)] ==
            IF i = 0 THEN <<>> ELSE InsertSorted(S[i - 1], items[i])
    IN S[Len(items)]

\* ------------------------------------------------ offload / hydrate
Strip(node) == IF HasTruthy(node, "data") THEN Without(node, "data") ELSE node

StripAll(nodes) == [i \in 1..Len(nodes) |-> Strip(nodes[i])]

\* bundle[node.id] = node.data in list order: a later node of the same id wins
BundleOf(nodes) ==
    LET carrying == {i \in 1..Len(nodes) : HasTruthy(nodes[i], "data")}
        lastOf(k) == CHOOSE i \in carrying :
                        /\ nodes[i].id = k
                        /\ \A j \in carrying : nodes[j].id = k => j <= i
    IN [k \in {nodes[i].id : i \in carrying} |-> nodes[lastOf(k)].data]

\* A faulty offload that writes the bundle even when it is empty
OffloadNodeDataAlwaysWrites(b, body, u, c) ==
    IF ~Has(body, "nodes") THEN [body |-> body, blob |-> b]
    ELSE [body |-> With(body, "nodes", StripAll(body.nodes)),
          blob |-> WriteJSON(b, BundlePath(u, c), BundleOf(body.nodes))]

\* offloadNodeData(body.nodes, u, c): the body with its nodes stripped, and the bucket
OffloadNodeData(b, body, u, c) ==
    IF ~Has(body, "nodes") THEN [body |-> body, blob |-> b]
    ELSE [body |-> With(body, "nodes", StripAll(body.nodes)),
          blob |-> IF DOMAIN BundleOf(body.nodes) # {}
                   THEN WriteJSON(b, BundlePath(u, c), BundleOf(body.nodes))
                   ELSE b]

\* A faulty hydration that never consults the bundle
HydrateFromBundleIgnoresBundle(bundle, node) ==
    IF ~HasTruthy(node, "data") THEN With(node, "data", DefaultData) ELSE node

HydrateFromBundle(bundle, node) ==
    IF HasTruthy(bundle, node.id) THEN With(node, "data", bundle[node.id])
    ELSE IF ~HasTruthy(node, "data") THEN With(node, "data", DefaultData)
    ELSE node

\* A faulty fallback that reads the file but leaves _dataRef on the node
HydrateLegacyKeepsRef(b, node) ==
    IF ~Has(node, "_dataRef") THEN node
    ELSE IF ~Exists(b, node["_dataRef"]) THEN With(node, "data", JNull)
    ELSE IF b[node["_dataRef"]] = Corrupt
         THEN (IF ~HasTruthy(node, "data") THEN With(node, "data", FailedData) ELSE node)
    ELSE With(node, "data", b[node["_dataRef"]])

\* One node of the per-node fallback: readJSON(node._dataRef) gives null for a
\* missing file and throws on unparsable content.  A _dataRef, when present, is a
\* path and so truthy.
HydrateLegacy(b, node) ==
    IF ~Has(node, "_dataRef") THEN node
    ELSE IF ~Exists(b, node["_dataRef"])
         THEN Without(With(node, "data", JNull), "_dataRef")
    ELSE IF b[node["_dataRef"]] = Corrupt
         THEN (IF ~HasTruthy(node, "data") THEN With(node, "data", FailedData) ELSE node)
    ELSE Without(With(node, "data", b[node["_dataRef"]]), "_dataRef")

HydrateNodeData(b, nodes, u, c) ==
    IF Exists(b, BundlePath(u, c))
    THEN [nodes |-> [i \in 1..Len(nodes) |-> HydrateFromBundle(b[BundlePath(u, c)], nodes[i])],
          reads |-> {BundlePath(u, c)}]
    ELSE [nodes |-> [i \in 1..Len(nodes) |-> HydrateLegacy(b, nodes[i])],
          reads |-> {BundlePath(u, c)} \cup
                    {nodes[i]["_dataRef"] : i \in {j \in 1..Len(nodes) : Has(nodes[j], "_dataRef")}}]

\* ------------------------------------------------------- bookkeeping
Request(op, u, id, reads) == [op |-> op, u |-> u, id |-> id, reads |-> reads]
Write(op, u, id, body) == [op |-> op, u |-> u, id |-> id, body |-> body]
NoRequest == Request("none", "-", "-", {})
NoWrite == Write("none", "-", "-", <<>>)
Ok == [status |-> 200, body |-> "ok"]

\* A request that only reads was served
Served(req, r) ==
    /\ last' = req
    /\ resp' = r
    /\ UNCHANGED <<store, lastWrite, calls>>

\* A request that writes was served
ServedWrite(req, body, r) ==
    /\ last' = req
    /\ lastWrite' = Write(req.op, req.u, req.id, body)
    /\ resp' = r
    /\ UNCHANGED <<store, calls>>

\* ----------------------------------------------------- canvas routes
\* A faulty route that reads the bundle before it looks for the document
GetCanvasHydratesFirst(u, id) ==
    /\ UNCHANGED <<store, blob, cache, now, firestore>>
    /\ LET reads == {CvPath(u, id), BundlePath(u, id)}
       IN IF ~Exists(blob, CvPath(u, id))
          THEN Served(Request("getCanvas", u, id, reads),
                      [status |-> 404, body |-> "Canvas not found"])
          ELSE Served(Request("getCanvas", u, id, reads),
                      [status |-> 200, body |-> blob[CvPath(u, id)]])

\* GET /api/canvases/:id
GetCanvas(u, id) ==
    /\ UNCHANGED <<store, blob, cache, now, firestore>>
    /\ IF ~Exists(blob, CvPath(u, id))
       THEN Served(Request("getCanvas", u, id, {CvPath(u, id)}),
                   [status |-> 404, body |-> "Canvas not found"])
       ELSE LET canvas == blob[CvPath(u, id)]
                h == HydrateNodeData(blob, canvas.nodes, u, id)
            IN IF ~Has(canvas, "nodes")
               THEN Served(Request("getCanvas", u, id, {CvPath(u, id)}),
                           [status |-> 200, body |-> canvas])
               ELSE Served(Request("getCanvas", u, id, {CvPath(u, id)} \cup h.reads),
                           [status |-> 200, body |-> With(canvas, "nodes", h.nodes)])

\* POST /api/canvases
CreateCanvas(u, canvas) ==
    LET o == OffloadNodeData(blob, canvas, u, canvas.id)
        b1 == WriteJSON(o.blob, CvPath(u, canvas.id), o.body)
        w == UpsertIndex(b1, cache, now, u, "canvases", CanvasMetaForIndex(o.body))
    IN /\ blob' = w.blob
       /\ cache' = w.cache
       /\ UNCHANGED <<store, now, firestore>>
       /\ ServedWrite(Request("createCanvas", u, canvas.id,
                              ReadIndex(b1, cache, now, u, "canvases").reads),
                      canvas, [status |-> 200, body |-> o.body])

\* PUT /api/canvases/:id
UpdateCanvas(u, id, updates) ==
    LET o == OffloadNodeData(blob, updates, u, id)
        existing == IF Exists(o.blob, CvPath(u, id)) THEN o.blob[CvPath(u, id)] ELSE <<>>
        merged == Spread(existing, o.body)
        b1 == WriteJSON(o.blob, CvPath(u, id), merged)
        w == UpsertIndex(b1, cache, now, u, "canvases", CanvasMetaForIndex(merged))
    IN /\ blob' = w.blob
       /\ cache' = w.cache
       /\ UNCHANGED <<store, now, firestore>>
       /\ ServedWrite(Request("updateCanvas", u, id,
                              {CvPath(u, id)} \cup ReadIndex(b1, cache, now, u, "canvases").reads),
                      updates, Ok)

\* DELETE /api/canvases/:id
DeleteCanvas(u, id) ==
    LET b1 == DeleteFile(blob, BundlePath(u, id))
        b2 == DeleteByPrefix(b1, LegacyDir(u, id))
        b3 == DeleteFile(b2, CvPath(u, id))
        w == RemoveFromIndex(b3, cache, now, u, "canvases", id)
    IN /\ blob' = w.blob
       /\ cache' = w.cache
       /\ UNCHANGED <<store, now, firestore>>
       /\ ServedWrite(Request("deleteCanvas", u, id,
                              ReadIndex(b3, cache, now, u, "canvases").reads),
                      <<>>, Ok)

\* GET /api/canvases?workspaceId=ws   (ws = Undef: no filter)
\* The unfiltered list is the cached array itself, which sort() reorders in place.
ListCanvases(u, ws) ==
    LET r == ReadIndex(blob, cache, now, u, "canvases")
        canvases == IF Truthy(ws)
                    THEN Filter(r.items, InWorkspace(r.items, ws))
                    ELSE r.items
        sorted == SortByUpdatedAtDesc(canvases)
    IN /\ cache' = IF Truthy(ws) THEN r.cache
                   ELSE [r.cache EXCEPT ![CacheKey(u, "canvases")].d = sorted]
       /\ UNCHANGED <<store, blob, now, firestore>>
       /\ Served(Request("listCanvases", u, ws, r.reads),
                 [status |-> 200, body |-> sorted])

\* -------------------------------------------------- workspace routes
\* GET /api/workspaces: the list is the cached array itself, sorted in place
ListWorkspaces(u) ==
    LET r == ReadIndex(blob, cache, now, u, "workspaces")
        sorted == SortByUpdatedAtDesc(r.items)
    IN /\ cache' = [r.cache EXCEPT ![CacheKey(u, "workspaces")].d = sorted]
       /\ UNCHANGED <<store, blob, now, firestore>>
       /\ Served(Request("listWorkspaces", u, "-", r.reads),
                 [status |-> 200, body |-> sorted])

\* POST /api/workspaces
CreateWorkspace(u, workspace) ==
    LET b1 == WriteJSON(blob, WsPath(u, workspace.id), workspace)
        w == UpsertIndex(b1, cache, now, u, "workspaces", workspace)
    IN /\ blob' = w.blob
       /\ cache' = w.cache
       /\ UNCHANGED <<store, now, firestore>>
       /\ ServedWrite(Request("createWorkspace", u, workspace.id,
                              ReadIndex(b1, cache, now, u, "workspaces").reads),
                      workspace, [status |-> 200, body |-> workspace])

\* PUT /api/workspaces/:id
UpdateWorkspace(u, id, updates) ==
    LET existing == IF Exists(blob, WsPath(u, id)) THEN blob[WsPath(u, id)] ELSE <<>>
        updated == Spread(existing, updates)
        b1 == WriteJSON(blob, WsPath(u, id), updated)
        w == UpsertIndex(b1, cache, now, u, "workspaces", updated)
    IN /\ blob' = w.blob
       /\ cache' = w.cache
       /\ UNCHANGED <<store, now, firestore>>
       /\ ServedWrite(Request("updateWorkspace", u, id,
                              {WsPath(u, id)} \cup ReadIndex(b1, cache, now, u, "workspaces").reads),
                      updates, Ok)

\* A faulty cascade that removes the per-node files and keeps the documents
DeleteCanvasFilesKeepsDocuments(b, u, ids) ==
    [q \in {r \in DOMAIN b : \A c \in ids : ~UnderDir(LegacyDir(u, c), r)} |-> b[q]]

\* The per-canvas deletions of DELETE /api/workspaces/:id, over the ids toDelete
DeleteCanvasFiles(b, u, ids) ==
    [q \in {r \in DOMAIN b : \A c \in ids : r # CvPath(u, c) /\ ~UnderDir(LegacyDir(u, c), r)}
        |-> b[q]]

\* DELETE /api/workspaces/:id
DeleteWorkspace(u, id) ==
    LET r == ReadIndex(blob, cache, now, u, "canvases")
        toDelete == Filter(r.items, InWorkspace(r.items, id))
        b1 == DeleteCanvasFiles(blob, u, {Get(toDelete[i], "id") : i \in 1..Len(toDelete)})
        remaining == Filter(r.items, NotInWorkspace(r.items, id))
        w1 == WriteIndex(b1, r.cache, now, u, "canvases", remaining)
        b2 == DeleteFile(w1.blob, WsPath(u, id))
        w2 == RemoveFromIndex(b2, w1.cache, now, u, "workspaces", id)
    IN /\ blob' = w2.blob
       /\ cache' = w2.cache
       /\ UNCHANGED <<store, now, firestore>>
       /\ ServedWrite(Request("deleteWorkspace", u, id,
                              r.reads \cup ReadIndex(b2, w1.cache, now, u, "workspaces").reads),
                      toDelete, Ok)

\* ---------------------------------------------------------- seed route
\* POST /api/seed
Seed(u, workspace, canvas) ==
    LET r == ReadIndex(blob, cache, now, u, "workspaces")
        o == OffloadNodeData(blob, canvas, u, canvas.id)
        b1 == WriteJSON(o.blob, WsPath(u, workspace.id), workspace)
        b2 == WriteJSON(b1, CvPath(u, canvas.id), o.body)
        w1 == UpsertIndex(b2, r.cache, now, u, "workspaces", workspace)
        w2 == UpsertIndex(w1.blob, w1.cache, now, u, "canvases", CanvasMetaForIndex(o.body))
    IN IF Len(r.items) > 0
       THEN /\ cache' = r.cache
            /\ UNCHANGED <<store, blob, now, firestore>>
            /\ Served(Request("seed", u, canvas.id, r.reads),
                      [status |-> 200, body |-> "Data already exists"])
       ELSE /\ blob' = w2.blob
            /\ cache' = w2.cache
            /\ UNCHANGED <<store, now, firestore>>
            /\ ServedWrite(Request("seed", u, canvas.id,
                                   r.reads \cup ReadIndex(w1.blob, w1.cache, now, u, "canvases").reads),
                           canvas, [status |-> 200, body |-> "seeded"])

\* ----------------------------------------------------------- time
\* A cache lifetime passes between two requests.
Tick ==
    /\ now < MaxTicks * CACHE_TTL
    /\ now' = now + CACHE_TTL
    /\ UNCHANGED <<store, blob, cache, firestore, last, lastWrite, resp, calls>>

\* ------------------------------------------------------------ inputs
EmptyStore == [p \in {} |-> <<>>]

\* The canvas store of the client as it is constructed: no canvas is open.
\* nodes and edges stand for the content of the canvas, "S" for the content as
\* loaded; timer is the pending timeout of useAutoSave; saving is the snapshot
\* of the saveCanvas call in flight; sent is the content the server last
\* acknowledged.
NoContent == [nodes |-> "-", edges |-> "-"]
LoadedContent == [nodes |-> "S", edges |-> "S"]
ClosedStore == [currentCanvasId |-> JNull, content |-> NoContent, isDirty |-> FALSE,
                timer |-> FALSE, saving |-> NoContent, sent |-> NoContent]

Init ==
    /\ blob = EmptyStore
    /\ cache = EmptyStore
    /\ now = 0
    /\ firestore = EmptyStore
    /\ last = NoRequest
    /\ lastWrite = NoWrite
    /\ resp = Ok
    /\ calls = EmptyStore
    /\ store = ClosedStore

\* Request bodies.  A node of a body is {id, data?}; node ids are distinct within
\* a list (they identify the nodes).  A list holds, for each node id in turn, no
\* node, a node without data, a node with its payload or a node with falsy data.
PayloadOf(n) == IF n = "n1" THEN "A" ELSE "B"
NodeChoices(n) == {<<>>, <<[id |-> n]>>, <<[id |-> n, data |-> PayloadOf(n)]>>,
                   <<[id |-> n, data |-> Falsy]>>}
NodeLists == {a \o b : a \in NodeChoices("n1"), b \in NodeChoices("n2")}

\* One canvas with every node list: the canvas-data traffic of one tenant.
DataCanvases == [id : {"c1"}, workspaceId : {"w1"}, title : {"t"}, createdAt : {1},
                 updatedAt : {1}, nodes : NodeLists]
DataUpdates == [nodes : NodeLists, updatedAt : {1}] \cup [title : {"t2"}, updatedAt : {1}]
DemoWorkspace == [id |-> "w1", name |-> "Demo", createdAt |-> 1, updatedAt |-> 1]

NextData ==
    \/ \E canvas \in DataCanvases : CreateCanvas("u1", canvas)
    \/ \E updates \in DataUpdates : UpdateCanvas("u1", "c1", updates)
    \/ GetCanvas("u1", "c1")
    \/ DeleteCanvas("u1", "c1")
    \/ \E canvas \in DataCanvases : Seed("u1", DemoWorkspace, canvas)

SpecData == Init /\ [][NextData]_vars

\* The entity traffic of one tenant: two workspaces, two canvases.
Workspaces == [id : WsIds, name : {"Demo"}, updatedAt : {1}]
Canvases == [id : CvIds, workspaceId : WsIds, updatedAt : Stamps,
             nodes : {<<[id |-> "n1", data |-> "A"]>>}]

Next ==
    \/ \E workspace \in Workspaces : CreateWorkspace("u1", workspace)
    \/ \E id \in WsIds : DeleteWorkspace("u1", id)
    \/ \E canvas \in Canvases : CreateCanvas("u1", canvas)
    \/ \E id \in CvIds : DeleteCanvas("u1", id)
    \/ ListCanvases("u1", Undef)
    \/ Tick

Spec == Init /\ [][Next]_vars

\* The listing traffic of one tenant: two canvases of workspace w1, which any
\* save may reorder, and one canvas of workspace w2.
ListedCanvases ==
    [id : CvIds, workspaceId : {"w1"}, title : {"t"}, updatedAt : Stamps, nodes : {<<>>}]
    \cup [id : {"c3"}, workspaceId : {"w2"}, title : {"t"}, updatedAt : {1}, nodes : {<<>>}]
ListFilters == WsIds \cup {Undef}

NextList ==
    \/ \E canvas \in ListedCanvases : CreateCanvas("u1", canvas)
    \/ \E id \in CvIds : DeleteCanvas("u1", id)
    \/ \E ws \in ListFilters : ListCanvases("u1", ws)
    \/ Tick

SpecList == Init /\ [][NextList]_vars

\* Half a cache lifetime passes between two requests.
HalfTick ==
    /\ now < MaxTicks * CACHE_TTL
    /\ now' = now + CACHE_TTL \div 2
    /\ UNCHANGED <<store, blob, cache, firestore, last, lastWrite, resp, calls>>

\* Another server process, whose own cache is cold, commits upsertIndex of an
\* entry: the index document changes and this process's cache does not.
OtherProcessUpsert(u, type, item) ==
    /\ LET path == IndexPath(u, type)
           data == IF Exists(blob, path) THEN blob[path] ELSE <<>>
       IN blob' = WriteJSON(blob, path, UpsertItems(data, item))
    /\ UNCHANGED <<store, cache, now, firestore, last, lastWrite, resp, calls>>

\* One process saves canvas c1 and lists; another process adds canvas c2.
StaleCanvases == [id : {"c1"}, workspaceId : {"w1"}, title : {"t"}, updatedAt : Stamps,
                  nodes : {<<>>}]
OtherEntry == [id |-> "c2", title |-> "t", workspaceId |-> "w1", updatedAt |-> 2, nodeCount |-> 0]

NextStale ==
    \/ \E canvas \in StaleCanvases : CreateCanvas("u1", canvas)
    \/ ListCanvases("u1", Undef)
    \/ OtherProcessUpsert("u1", "canvases", OtherEntry)
    \/ HalfTick

SpecStale == Init /\ [][NextStale]_vars

\* --------------------------------------------------------- migration
\* migrate-to-gcs.js, the body of the canvas loop for one canvas document of the
\* legacy store: each node carrying data gets a file of its own and a _dataRef.
MigrateNode(u, c, node) ==
    IF HasTruthy(node, "data")
    THEN With(Without(node, "data"), "_dataRef", LegacyPath(u, c, node.id))
    ELSE node

\* The node files written for the nodes 1..k, in list order
MigrateNodeFiles(b, u, c, nodes) ==
    LET F[k \in 0..Len(nodes)] ==
            IF k = 0 THEN b
            ELSE IF HasTruthy(nodes[k], "data")
                 THEN WriteJSON(F[k - 1], LegacyPath(u, c, nodes[k].id), nodes[k].data)
                 ELSE F[k - 1]
    IN F[Len(nodes)]

MigratedCanvas(u, c, canvas) ==
    IF Has(canvas, "nodes")
    THEN With(canvas, "nodes", [i \in 1..Len(canvas.nodes) |-> MigrateNode(u, c, canvas.nodes[i])])
    ELSE canvas

\* A faulty migration step that moves the canvas: the source document is deleted
MigrateCanvasDeletesSource(u, c) ==
    /\ Exists(firestore, CvPath(u, c))
    /\ blob' = WriteJSON(blob, CvPath(u, c), MigratedCanvas(u, c, firestore[CvPath(u, c)]))
    /\ firestore' = DeleteFile(firestore, CvPath(u, c))
    /\ last' = Request("migrateCanvas", u, c, {})
    /\ lastWrite' = Write("migrateCanvas", u, c, firestore[CvPath(u, c)])
    /\ UNCHANGED <<store, cache, now, resp, calls>>

MigrateCanvas(u, c) ==
    /\ Exists(firestore, CvPath(u, c))
    /\ LET canvas == firestore[CvPath(u, c)]
           b1 == IF Has(canvas, "nodes") THEN MigrateNodeFiles(blob, u, c, canvas.nodes) ELSE blob
       IN blob' = WriteJSON(b1, CvPath(u, c), MigratedCanvas(u, c, canvas))
    /\ last' = Request("migrateCanvas", u, c, {})
    /\ lastWrite' = Write("migrateCanvas", u, c, firestore[CvPath(u, c)])
    /\ UNCHANGED <<store, cache, now, firestore, resp, calls>>

\* The run aborts in the canvas loop: a writeJSON throws after the files of the
\* first k nodes were written (k = Len(nodes): the write of the document throws),
\* migrate() rejects and the process exits.
MigrateCanvasAborted(u, c, k) ==
    /\ Exists(firestore, CvPath(u, c))
    /\ Has(firestore[CvPath(u, c)], "nodes")
    /\ k <= Len(firestore[CvPath(u, c)].nodes)
    /\ blob' = MigrateNodeFiles(blob, u, c, SubSeq(firestore[CvPath(u, c)].nodes, 1, k))
    /\ last' = Request("migrateAborted", u, c, {})
    /\ UNCHANGED <<store, cache, now, firestore, lastWrite, resp, calls>>

\* ------------------------------------------------------- environment
\* The bucket loses a per-node file, or holds bytes that do not parse.
NodeFiles == {p \in DOMAIN blob : Len(p) = 4 /\ p[2] = "canvas-data"}

LoseNodeFile(p) ==
    /\ p \in NodeFiles
    /\ blob' = DeleteFile(blob, p)
    /\ UNCHANGED <<store, cache, now, firestore, last, lastWrite, resp, calls>>

CorruptNodeFile(p) ==
    /\ p \in NodeFiles
    /\ blob[p] # Corrupt
    /\ blob' = WriteJSON(blob, p, Corrupt)
    /\ UNCHANGED <<store, cache, now, firestore, last, lastWrite, resp, calls>>

\* The legacy store holds one canvas of u1, with any node list, and one of u2.
LegacyCanvas(nodes) == [id |-> "c1", workspaceId |-> "w1", title |-> "t", createdAt |-> 1,
                        updatedAt |-> 1, nodes |-> nodes]
SecretNodes == <<[id |-> "n1", data |-> "S"]>>

InitLegacy ==
    /\ blob = EmptyStore
    /\ cache = EmptyStore
    /\ now = 0
    /\ \E nodes \in NodeLists :
          firestore = (CvPath("u1", "c1") :> LegacyCanvas(nodes))
                      @@ (CvPath("u2", "c1") :> LegacyCanvas(SecretNodes))
    /\ last = NoRequest
    /\ lastWrite = NoWrite
    /\ resp = Ok
    /\ calls = EmptyStore
    /\ store = ClosedStore

\* Bodies whose nodes name their data by a _dataRef path, as a client may send them
RefNode(n, p) == With([id |-> n], "_dataRef", p)
RefCanvases == {LegacyCanvas(<<RefNode("n1", p)>>) :
                    p \in {LegacyPath(u, "c1", "n1") : u \in Tenants}}

NextLegacy ==
    \/ \E u \in Tenants : MigrateCanvas(u, "c1")
    \/ \E u \in Tenants, k \in 0..Cardinality(NodeIds) : MigrateCanvasAborted(u, "c1", k)
    \/ \E u \in Tenants : GetCanvas(u, "c1")
    \/ \E canvas \in RefCanvases : CreateCanvas("u1", canvas)
    \/ \E u \in Tenants, n \in NodeIds : LoseNodeFile(LegacyPath(u, "c1", n))
    \/ \E u \in Tenants, n \in NodeIds : CorruptNodeFile(LegacyPath(u, "c1", n))

SpecLegacy == InitLegacy /\ [][NextLegacy]_vars

\* Both storage generations side by side: the legacy store holds two canvases of
\* one tenant, which the migration copies and the client then saves and deletes.
CleanupNodes == <<[id |-> "n1", data |-> "A"], [id |-> "n2", data |-> "B"]>>
CleanupCanvases == [id : CvIds, workspaceId : {"w1"}, title : {"t"}, createdAt : {1},
                    updatedAt : {1}, nodes : {CleanupNodes}]

InitCleanup ==
    /\ blob = EmptyStore
    /\ cache = EmptyStore
    /\ now = 0
    /\ firestore = [p \in {CvPath("u1", c) : c \in CvIds} |-> [LegacyCanvas(CleanupNodes) EXCEPT !.id = p[3]]]
    /\ last = NoRequest
    /\ lastWrite = NoWrite
    /\ resp = Ok
    /\ calls = EmptyStore
    /\ store = ClosedStore

NextCleanup ==
    \/ \E c \in CvIds : MigrateCanvas("u1", c)
    \/ \E canvas \in CleanupCanvases : CreateCanvas("u1", canvas)
    \/ \E updates \in [nodes : {CleanupNodes}, updatedAt : {1}], c \in CvIds :
          UpdateCanvas("u1", c, updates)
    \/ \E c \in CvIds : DeleteCanvas("u1", c)
    \/ \E c \in CvIds, n \in NodeIds : LoseNodeFile(LegacyPath("u1", c, n))

SpecCleanup == InitCleanup /\ [][NextCleanup]_vars

\* ------------------------------------------------- requests in progress
\* A request runs from one await of blob I/O to the next without interruption
\* (one event loop); between two awaits the steps of other requests may run.
\* An array is an object: the array readIndex returns is the one the cache holds,
\* and push or items[idx] = item changes it for every holder.  With two calls
\* on one index a call's array is either the array in the cache (shared) or an
\* array no one else holds (items).
CallIds == {"p1", "p2"}
Started(p) == p \in DOMAIN calls
AllDone == \A p \in CallIds : Started(p) /\ calls[p].pc = "done"

\* setCache(key, array of p): the holders of the array the cache held until now
\* keep that array for themselves
Detach(cs, p, c, k) ==
    [q \in DOMAIN cs |->
        IF q # p /\ cs[q].shared
        THEN [cs[q] EXCEPT !.shared = FALSE, !.items = c[k].d]
        ELSE cs[q]]

\* A faulty upsert that leaves the array as it found it
UpsertInPlaceDropsItem(items, item) == items

\* const idx = items.findIndex(...); if (idx >= 0) items[idx] = item; else items.push(item)
UpsertInPlace(items, item) == UpsertItems(items, item)

\* upsertIndex(u1, type, item) up to its first await of blob I/O: on a cache hit
\* the cached array is changed in place and its JSON is handed to the write; on
\* a miss the read of the index document is under way.
UpsertStart(p, type, item) ==
    /\ ~Started(p)
    /\ LET k == CacheKey("u1", type)
           call == [op |-> "upsertIndex", type |-> type, item |-> item, items |-> <<>>]
       IN IF GetCachedHit(cache, k, now)
          THEN /\ cache' = [cache EXCEPT ![k].d = UpsertInPlace(cache[k].d, item)]
               /\ calls' = calls @@ (p :> (call @@ [pc |-> "write", shared |-> TRUE,
                                         snapshot |-> UpsertInPlace(cache[k].d, item)]))
          ELSE /\ cache' = cache
               /\ calls' = calls @@ (p :> (call @@ [pc |-> "read", shared |-> FALSE,
                                                    snapshot |-> <<>>]))
    /\ UNCHANGED <<store, blob, now, firestore, last, lastWrite, resp>>

\* readJSON of the index document resolves: the parsed array goes into the cache,
\* is changed in place, and its JSON is handed to the write
UpsertRead(p) ==
    /\ Started(p) /\ calls[p].pc = "read"
    /\ LET k == CacheKey("u1", calls[p].type)
           path == IndexPath("u1", calls[p].type)
           data == IF Exists(blob, path) THEN blob[path] ELSE <<>>
           items == UpsertInPlace(data, calls[p].item)
           others == IF k \in DOMAIN cache THEN Detach(calls, p, cache, k) ELSE calls
       IN /\ cache' = SetCache(cache, k, items, now)
          /\ calls' = [others EXCEPT ![p].pc = "write", ![p].shared = TRUE,
                                     ![p].snapshot = items]
    /\ UNCHANGED <<store, blob, now, firestore, last, lastWrite, resp>>

\* file.save of the index document takes effect in the bucket
UpsertLand(p) ==
    /\ Started(p) /\ calls[p].pc = "write"
    /\ blob' = WriteJSON(blob, IndexPath("u1", calls[p].type), calls[p].snapshot)
    /\ calls' = [calls EXCEPT ![p].pc = "ack"]
    /\ UNCHANGED <<store, cache, now, firestore, last, lastWrite, resp>>

\* writeJSON resolves: setCache(key, items) with the call's array, and the call returns
UpsertAck(p) ==
    /\ Started(p) /\ calls[p].pc = "ack"
    /\ LET k == CacheKey("u1", calls[p].type)
       IN IF calls[p].shared
          THEN /\ cache' = SetCache(cache, k, cache[k].d, now)
               /\ calls' = [calls EXCEPT ![p].pc = "done"]
          ELSE /\ cache' = SetCache(cache, k, calls[p].items, now)
               /\ calls' = [Detach(calls, p, cache, k) EXCEPT
                                ![p].pc = "done", ![p].shared = TRUE, ![p].items = <<>>]
    /\ UNCHANGED <<store, blob, now, firestore, last, lastWrite, resp>>

\* reorderWorkspaces fires one update per workspace whose order changed, without
\* awaiting any: each ends in upsertIndex(u1, 'workspaces', updated).
RaceWorkspaces == [id : WsIds, name : {"Demo"}, updatedAt : {1}, order : {0}]
Reordered(p) == [id |-> IF p = "p1" THEN "w1" ELSE "w2", name |-> "Demo", updatedAt |-> 1,
                 order |-> 1]

NextRace ==
    \/ calls = EmptyStore /\ \E workspace \in RaceWorkspaces : CreateWorkspace("u1", workspace)
    \/ calls = EmptyStore /\ Tick
    \/ \E p \in CallIds : UpsertStart(p, "workspaces", Reordered(p))
    \/ \E p \in CallIds : UpsertRead(p)
    \/ \E p \in CallIds : UpsertLand(p)
    \/ \E p \in CallIds : UpsertAck(p)

SpecRace == Init /\ [][NextRace]_vars

\* PUT /api/canvases/:id of tenant u1, await by await.  offloadNodeData strips the
\* nodes at once; the bundle, when there is one, is the first write.
UpdateCanvasStart(p, id, updates) ==
    /\ ~Started(p)
    /\ LET bundle == IF Has(updates, "nodes") THEN BundleOf(updates.nodes) ELSE <<>>
           call == [op |-> "updateCanvas", id |-> id, body |-> updates,
                    stripped |-> OffloadNodeData(blob, updates, "u1", id).body,
                    bundle |-> bundle, type |-> "canvases", item |-> <<>>, items |-> <<>>,
                    shared |-> FALSE, snapshot |-> <<>>]
       IN calls' = calls @@ (p :> (call @@ [pc |-> IF DOMAIN bundle # {} THEN "writeBundle"
                                                  ELSE "readDoc"]))
    /\ UNCHANGED <<store, blob, cache, now, firestore, last, lastWrite, resp>>

\* the write of the bundle takes effect and resolves; the read of the document starts
UpdateCanvasBundleLand(p) ==
    /\ Started(p) /\ calls[p].pc = "writeBundle"
    /\ blob' = WriteJSON(blob, BundlePath("u1", calls[p].id), calls[p].bundle)
    /\ calls' = [calls EXCEPT ![p].pc = "readDoc"]
    /\ UNCHANGED <<store, cache, now, firestore, last, lastWrite, resp>>

\* readJSON(path) || {} resolves; the merged document is handed to the write
UpdateCanvasReadDoc(p) ==
    /\ Started(p) /\ calls[p].pc = "readDoc"
    /\ LET path == CvPath("u1", calls[p].id)
           existing == IF Exists(blob, path) THEN blob[path] ELSE <<>>
       IN calls' = [calls EXCEPT ![p].pc = "writeDoc",
                                 ![p].stripped = Spread(existing, calls[p].stripped)]
    /\ UNCHANGED <<store, blob, cache, now, firestore, last, lastWrite, resp>>

\* the write of the merged document takes effect and resolves; upsertIndex runs
\* up to its first await of blob I/O
UpdateCanvasDocLand(p) ==
    /\ Started(p) /\ calls[p].pc = "writeDoc"
    /\ blob' = WriteJSON(blob, CvPath("u1", calls[p].id), calls[p].stripped)
    /\ LET k == CacheKey("u1", "canvases")
           item == CanvasMetaForIndex(calls[p].stripped)
       IN IF GetCachedHit(cache, k, now)
          THEN /\ cache' = [cache EXCEPT ![k].d = UpsertInPlace(cache[k].d, item)]
               /\ calls' = [calls EXCEPT ![p].pc = "write", ![p].item = item,
                                         ![p].shared = TRUE,
                                         ![p].snapshot = UpsertInPlace(cache[k].d, item)]
          ELSE /\ cache' = cache
               /\ calls' = [calls EXCEPT ![p].pc = "read", ![p].item = item]
    /\ UNCHANGED <<store, now, firestore, last, lastWrite, resp>>

\* Two saves of canvas c1 in flight at once, each with its full node list: the
\* nodes of the first carry "A", the node of the second carries "B".
SavedNodes(p) ==
    IF p = "p1" THEN <<[id |-> "n1", data |-> "A"], [id |-> "n2", data |-> "A"]>>
    ELSE <<[id |-> "n1", data |-> "B"]>>
Saved(p) == [nodes |-> SavedNodes(p), updatedAt |-> IF p = "p1" THEN 1 ELSE 2]
SavedBase == [id |-> "c1", workspaceId |-> "w1", title |-> "t", createdAt |-> 1,
              updatedAt |-> 1, nodes |-> <<>>]

NextRaceCanvas ==
    \/ calls = EmptyStore /\ CreateCanvas("u1", SavedBase)
    \/ calls = EmptyStore /\ Tick
    \/ \E p \in CallIds : UpdateCanvasStart(p, "c1", Saved(p))
    \/ \E p \in CallIds : UpdateCanvasBundleLand(p)
    \/ \E p \in CallIds : UpdateCanvasReadDoc(p)
    \/ \E p \in CallIds : UpdateCanvasDocLand(p)
    \/ \E p \in CallIds : UpsertRead(p)
    \/ \E p \in CallIds : UpsertLand(p)
    \/ \E p \in CallIds : UpsertAck(p)
    \/ AllDone /\ GetCanvas("u1", "c1")

SpecRaceCanvas == Init /\ [][NextRaceCanvas]_vars

\* DELETE /api/workspaces/:id of tenant u1, await by await.  The awaits follow
\* one another in the order of the handler's statements: the deletions of the
\* child canvases (Promise.all), the write of the canvases index, the deletion
\* of the workspace document, removeFromIndex.
DeleteWorkspaceParentFirst(stage) ==
    IF stage = "deleting" THEN "deleteWs"
    ELSE IF stage = "deleteWs" THEN "removeWs"
    ELSE "done"

DeleteWorkspaceNext(stage) ==
    IF stage = "deleting" THEN "writeIndex"
    ELSE IF stage = "writeIndex" THEN "deleteWs"
    ELSE IF stage = "deleteWs" THEN "removeWs"
    ELSE IF stage = "removeWs" THEN "writeWsIndex"
    ELSE "done"

Running(p) == Started(p) /\ calls[p].ended = "no"

\* readIndex(u1, 'canvases') and the filter; each child's deleteByPrefix starts
DeleteWorkspaceStart(p, id) ==
    /\ ~Started(p)
    /\ LET r == ReadIndex(blob, cache, now, "u1", "canvases")
           toDelete == Filter(r.items, InWorkspace(r.items, id))
           ids == {Get(toDelete[i], "id") : i \in 1..Len(toDelete)}
       IN /\ cache' = r.cache
          /\ calls' = calls @@ (p :>
                [op |-> "deleteWorkspace", id |-> id, ended |-> "no",
                 canvasIndex |-> r.items, toDelete |-> toDelete,
                 left |-> [c \in ids |-> "prefix"],
                 listed |-> id \in {Get(ReadIndex(blob, cache, now, "u1", "workspaces").items[i], "id") :
                                       i \in 1..Len(ReadIndex(blob, cache, now, "u1", "workspaces").items)},
                 snapshot |-> <<>>, shared |-> FALSE, items |-> <<>>,
                 pc |-> IF ids = {} THEN DeleteWorkspaceNext("deleting") ELSE "deleting"])
    /\ UNCHANGED <<store, blob, now, firestore, last, lastWrite, resp>>

\* A child's step completes once every child's have: Promise.all resolves
ChildrenDone(call, left) ==
    IF call.ended = "no" /\ \A c \in DOMAIN left : left[c] = "gone"
    THEN DeleteWorkspaceNext("deleting") ELSE call.pc

\* deleteByPrefix of one child resolves; its deleteFile starts.  A child's chain
\* goes on after the handler has answered 500 for another child's failure.
DeleteWorkspacePrefixDeleted(p, c) ==
    /\ Started(p) /\ calls[p].op = "deleteWorkspace" /\ calls[p].pc = "deleting"
    /\ calls[p].ended \in {"no", "failed"}
    /\ c \in DOMAIN calls[p].left /\ calls[p].left[c] = "prefix"
    /\ blob' = DeleteByPrefix(blob, LegacyDir("u1", c))
    /\ calls' = [calls EXCEPT ![p].left[c] = "doc"]
    /\ UNCHANGED <<store, cache, now, firestore, last, lastWrite, resp>>

\* deleteFile of one child's document resolves
DeleteWorkspaceDocDeleted(p, c) ==
    /\ Started(p) /\ calls[p].op = "deleteWorkspace" /\ calls[p].pc = "deleting"
    /\ calls[p].ended \in {"no", "failed"}
    /\ c \in DOMAIN calls[p].left /\ calls[p].left[c] = "doc"
    /\ blob' = DeleteFile(blob, CvPath("u1", c))
    /\ LET left == [calls[p].left EXCEPT ![c] = "gone"]
       IN calls' = [calls EXCEPT ![p].left = left, ![p].pc = ChildrenDone(calls[p], left)]
    /\ UNCHANGED <<store, cache, now, firestore, last, lastWrite, resp>>

\* writeIndex(u1, 'canvases', remaining) resolves
DeleteWorkspaceIndexWritten(p) ==
    /\ Running(p) /\ calls[p].op = "deleteWorkspace" /\ calls[p].pc = "writeIndex"
    /\ LET remaining == Filter(calls[p].canvasIndex,
                               NotInWorkspace(calls[p].canvasIndex, calls[p].id))
           w == WriteIndex(blob, cache, now, "u1", "canvases", remaining)
       IN blob' = w.blob /\ cache' = w.cache
    /\ calls' = [calls EXCEPT ![p].pc = DeleteWorkspaceNext("writeIndex")]
    /\ UNCHANGED <<store, now, firestore, last, lastWrite, resp>>

\* deleteFile of the workspace document resolves
DeleteWorkspaceDocGone(p) ==
    /\ Running(p) /\ calls[p].op = "deleteWorkspace" /\ calls[p].pc = "deleteWs"
    /\ blob' = DeleteFile(blob, WsPath("u1", calls[p].id))
    /\ calls' = [calls EXCEPT ![p].pc = DeleteWorkspaceNext("deleteWs")]
    /\ UNCHANGED <<store, cache, now, firestore, last, lastWrite, resp>>

\* removeFromIndex: readIndex(u1, 'workspaces') resolves and the filtered array is
\* handed to the write
DeleteWorkspaceRemoveRead(p) ==
    /\ Running(p) /\ calls[p].op = "deleteWorkspace" /\ calls[p].pc = "removeWs"
    /\ LET r == ReadIndex(blob, cache, now, "u1", "workspaces")
       IN /\ cache' = r.cache
          /\ calls' = [calls EXCEPT ![p].pc = DeleteWorkspaceNext("removeWs"),
                                    ![p].snapshot = RemoveItems(r.items, calls[p].id)]
    /\ UNCHANGED <<store, blob, now, firestore, last, lastWrite, resp>>

\* removeFromIndex: writeIndex resolves, and the handler answers { ok: true }
DeleteWorkspaceRemoved(p) ==
    /\ Running(p) /\ calls[p].op = "deleteWorkspace" /\ calls[p].pc = "writeWsIndex"
    /\ LET w == WriteIndex(blob, cache, now, "u1", "workspaces", calls[p].snapshot)
       IN blob' = w.blob /\ cache' = w.cache
    /\ calls' = [calls EXCEPT ![p].pc = DeleteWorkspaceNext("writeWsIndex")]
    /\ last' = Request("deleteWorkspace", "u1", calls[p].id, {})
    /\ resp' = Ok
    /\ UNCHANGED <<store, now, firestore, lastWrite>>

\* The blob call the handler awaits throws: the catch answers 500 and the
\* statements after the await are not run.  While the children are being deleted
\* the call that throws is the one a child's chain awaits: that chain ends, and
\* Promise.all rejects at once.
DeleteWorkspaceFails(p) ==
    /\ Running(p) /\ calls[p].op = "deleteWorkspace" /\ calls[p].pc # "done"
    /\ IF calls[p].pc = "deleting"
       THEN \E c \in DOMAIN calls[p].left :
                /\ calls[p].left[c] # "gone"
                /\ calls' = [calls EXCEPT ![p].ended = "failed", ![p].left[c] = "failed"]
       ELSE calls' = [calls EXCEPT ![p].ended = "failed"]
    /\ last' = Request("deleteWorkspace", "u1", calls[p].id, {})
    /\ resp' = [status |-> 500, body |-> "error"]
    /\ UNCHANGED <<store, blob, cache, now, firestore, lastWrite>>

\* The process dies at an await: nothing of the handler runs any more and the
\* cache is gone
DeleteWorkspaceCrashes(p) ==
    /\ Running(p) /\ calls[p].op = "deleteWorkspace" /\ calls[p].pc # "done"
    /\ calls' = [calls EXCEPT ![p].ended = "crashed"]
    /\ cache' = EmptyStore
    /\ UNCHANGED <<store, blob, now, firestore, last, lastWrite, resp>>

\* One deleteWorkspace, with no other request under way, on the workspaces and
\* canvases the tenant has created
CascadeCanvases == [id : CvIds, workspaceId : WsIds, updatedAt : {1},
                    nodes : {<<[id |-> "n1", data |-> "A"]>>}]

NextCascade ==
    \/ calls = EmptyStore /\ \E workspace \in Workspaces : CreateWorkspace("u1", workspace)
    \/ calls = EmptyStore /\ \E canvas \in CascadeCanvases : CreateCanvas("u1", canvas)
    \/ calls = EmptyStore /\ Tick
    \/ \E id \in WsIds : DeleteWorkspaceStart("p1", id)
    \/ \E c \in CvIds : DeleteWorkspacePrefixDeleted("p1", c)
    \/ \E c \in CvIds : DeleteWorkspaceDocDeleted("p1", c)
    \/ DeleteWorkspaceIndexWritten("p1")
    \/ DeleteWorkspaceDocGone("p1")
    \/ DeleteWorkspaceRemoveRead("p1")
    \/ DeleteWorkspaceRemoved("p1")
    \/ DeleteWorkspaceFails("p1")
    \/ DeleteWorkspaceCrashes("p1")

SpecCascade == Init /\ [][NextCascade]_vars

\* readJSON(path) is called: file.exists() is under way
ReadJSONStart(p, path) ==
    /\ ~Started(p)
    /\ calls' = calls @@ (p :> [op |-> "readJSON", path |-> path, pc |-> "exists",
                                value |-> Undef])
    /\ UNCHANGED <<store, blob, cache, now, firestore, last, lastWrite, resp>>

\* file.exists() resolves: an absent object makes readJSON return null, a
\* present one starts file.download()
ReadJSONExists(p) ==
    /\ Started(p) /\ calls[p].op = "readJSON" /\ calls[p].pc = "exists"
    /\ calls' = IF Exists(blob, calls[p].path)
                THEN [calls EXCEPT ![p].pc = "download"]
                ELSE [calls EXCEPT ![p].pc = "done", ![p].value = JNull]
    /\ UNCHANGED <<store, blob, cache, now, firestore, last, lastWrite, resp>>

\* file.download() settles: it resolves with the content of the object, and
\* rejects (404, no such object) when the object is not there any more
ReadJSONDownload(p) ==
    /\ Started(p) /\ calls[p].op = "readJSON" /\ calls[p].pc = "download"
    /\ calls' = IF Exists(blob, calls[p].path)
                THEN [calls EXCEPT ![p].pc = "done", ![p].value = blob[calls[p].path]]
                ELSE [calls EXCEPT ![p].pc = "raised"]
    /\ UNCHANGED <<store, blob, cache, now, firestore, last, lastWrite, resp>>

\* Reads of the files of canvas c1 while the canvas is saved and deleted
AbsentCanvases == [id : {"c1"}, workspaceId : {"w1"}, updatedAt : {1},
                   nodes : {<<>>, <<[id |-> "n1", data |-> "A"]>>}]
ReadPaths == {CvPath("u1", "c1"), BundlePath("u1", "c1"), IndexPath("u1", "canvases")}

NextAbsent ==
    \/ \E canvas \in AbsentCanvases : CreateCanvas("u1", canvas)
    \/ DeleteCanvas("u1", "c1")
    \/ \E p \in CallIds, path \in ReadPaths : ReadJSONStart(p, path)
    \/ \E p \in CallIds : ReadJSONExists(p)
    \/ \E p \in CallIds : ReadJSONDownload(p)

SpecAbsent == Init /\ [][NextAbsent]_vars

\* A blob call that PUT /api/canvases/:id awaits rejects (the bundle write, the
\* document read or the document write): the write has no effect, the catch
\* answers 500 and the statements after the await are not run
UpdateCanvasFails(p) ==
    /\ Started(p) /\ calls[p].op = "updateCanvas"
    /\ calls[p].pc \in {"writeBundle", "readDoc", "writeDoc"}
    /\ calls' = [calls EXCEPT ![p].pc = "failed"]
    /\ last' = Request("updateCanvas", "u1", calls[p].id, {})
    /\ resp' = [status |-> 500, body |-> "error"]
    /\ UNCHANGED <<store, blob, cache, now, firestore, lastWrite>>

\* The blob call that upsertIndex awaits rejects (the read of the index document
\* or its write): the write has no effect, setCache after the write is not run,
\* and the route's catch answers 500
UpsertFails(p) ==
    /\ Started(p) /\ calls[p].pc \in {"read", "write"}
    /\ calls' = [calls EXCEPT ![p].pc = IF calls[p].pc = "write" THEN "writeFailed"
                                       ELSE "readFailed"]
    /\ last' = Request(calls[p].op, "u1", calls[p].id, {})
    /\ resp' = [status |-> 500, body |-> "error"]
    /\ UNCHANGED <<store, blob, cache, now, firestore, lastWrite>>

\* The call has returned or thrown
Settled(p) == Started(p) /\ calls[p].pc \in {"done", "failed", "readFailed", "writeFailed"}

\* One save of canvas c1 whose blob calls can fail, on a canvas created with a
\* payload in every node
FailBases == [id : {"c1"}, workspaceId : {"w1"}, title : {"t"}, updatedAt : {1},
              nodes : {<<[id |-> "n1", data |-> "A"]>>,
                       <<[id |-> "n1", data |-> "A"], [id |-> "n2", data |-> "A"]>>}]
FailUpdates == {[nodes |-> <<[id |-> "n1", data |-> "B"]>>, updatedAt |-> 2],
                [nodes |-> <<[id |-> "n1"]>>, updatedAt |-> 2],
                [title |-> "t2", updatedAt |-> 2]}

NextFail ==
    \/ calls = EmptyStore /\ \E canvas \in FailBases : CreateCanvas("u1", canvas)
    \/ calls = EmptyStore /\ Tick
    \/ \E updates \in FailUpdates : UpdateCanvasStart("p1", "c1", updates)
    \/ UpdateCanvasBundleLand("p1")
    \/ UpdateCanvasReadDoc("p1")
    \/ UpdateCanvasDocLand("p1")
    \/ UpsertRead("p1")
    \/ UpsertLand("p1")
    \/ UpsertAck("p1")
    \/ UpdateCanvasFails("p1")
    \/ UpsertFails("p1")
    \/ (calls = EmptyStore \/ Settled("p1")) /\ GetCanvas("u1", "c1")
    \/ (calls = EmptyStore \/ Settled("p1")) /\ ListCanvases("u1", Undef)

SpecFail == Init /\ [][NextFail]_vars

\* migrate-to-gcs.js, the canvas loop over the canvases ids of tenant u in the
\* legacy store fs
RECURSIVE MigrateCanvases(_, _, _, _)
MigrateCanvases(b, fs, u, ids) ==
    IF ids = {} THEN b
    ELSE LET c == CHOOSE x \in ids : TRUE
             canvas == fs[CvPath(u, c)]
             b1 == IF Has(canvas, "nodes") THEN MigrateNodeFiles(b, u, c, canvas.nodes) ELSE b
         IN MigrateCanvases(WriteJSON(b1, CvPath(u, c), MigratedCanvas(u, c, canvas)),
                            fs, u, ids \ {c})

\* The documents of tenant u in a collection of the legacy store
LegacyDocs(fs, u, collection) == {p \in DOMAIN fs : p[1] = u /\ p[2] = collection}

\* migrate-to-gcs.js, the body of the loop over the users for one tenant, run to
\* its end: every workspace document is copied, every canvas is written with
\* its node files, every settings document is copied.  Nothing else is written.
MigrateTenant(u) ==
    /\ LET copied == LegacyDocs(firestore, u, "workspaces") \cup LegacyDocs(firestore, u, "settings")
           b1 == [p \in DOMAIN blob \cup copied |-> IF p \in copied THEN firestore[p] ELSE blob[p]]
       IN blob' = MigrateCanvases(b1, firestore, u,
                                  {p[3] : p \in LegacyDocs(firestore, u, "canvases")})
    /\ last' = Request("migrateTenant", u, "-", {})
    /\ lastWrite' = Write("migrateTenant", u, "-", <<>>)
    /\ UNCHANGED <<store, cache, now, firestore, resp, calls>>

\* The legacy store of tenant u1: some workspaces, some canvases, a settings document
LegacyWorkspaces == {[id |-> w, name |-> "Demo", updatedAt |-> 1] : w \in WsIds}
LegacyCanvases == {[id |-> c, workspaceId |-> "w1", title |-> "t", updatedAt |-> 1,
                    nodes |-> <<[id |-> "n1", data |-> "A"]>>] : c \in CvIds}
LegacyStore(ws, cs) ==
    [p \in {WsPath("u1", w.id) : w \in ws} \cup {CvPath("u1", c.id) : c \in cs}
           \cup {<<"u1", "settings", "s1">>} |->
        IF p[2] = "workspaces" THEN CHOOSE w \in ws : w.id = p[3]
        ELSE IF p[2] = "canvases" THEN CHOOSE c \in cs : c.id = p[3]
        ELSE [theme |-> "dark"]]

InitMigrate ==
    /\ blob = EmptyStore
    /\ cache = EmptyStore
    /\ now = 0
    /\ \E ws \in SUBSET LegacyWorkspaces, cs \in SUBSET LegacyCanvases :
          firestore = LegacyStore(ws, cs)
    /\ last = NoRequest
    /\ lastWrite = NoWrite
    /\ resp = Ok
    /\ calls = EmptyStore
    /\ store = ClosedStore

NextMigrate ==
    \/ MigrateTenant("u1")
    \/ ListWorkspaces("u1")
    \/ \E ws \in {Undef, "w1"} : ListCanvases("u1", ws)
    \/ \E c \in CvIds : GetCanvas("u1", c)
    \/ Tick

SpecMigrate == InitMigrate /\ [][NextMigrate]_vars

\* --------------------------------------------------- client autosave
\* useAutoSave's effect runs when isDirty has changed: its cleanup clears the
\* pending timeout, and when the store is dirty a new timeout is set
AutoSaveEffect(s, dirty) ==
    IF dirty = s.isDirty THEN s.timer ELSE dirty

\* updateNodeData(nodeId, data) on a node of the open canvas
UpdateNodeData(v) ==
    /\ store.currentCanvasId # JNull
    /\ store' = [store EXCEPT !.content.nodes = v, !.isDirty = TRUE,
                              !.timer = AutoSaveEffect(store, TRUE)]
    /\ UNCHANGED <<blob, cache, now, firestore, last, lastWrite, resp, calls>>

\* addEdge(edge) of an edge the canvas does not have
AddEdge(v) ==
    /\ store.currentCanvasId # JNull
    /\ store.content.edges # v
    /\ store' = [store EXCEPT !.content.edges = v, !.isDirty = TRUE,
                              !.timer = AutoSaveEffect(store, TRUE)]
    /\ UNCHANGED <<blob, cache, now, firestore, last, lastWrite, resp, calls>>

\* The timeout fires and calls saveCanvas(), which takes its snapshot of the
\* store and awaits canvasApi.update
TimerFires ==
    /\ store.timer
    /\ store' = IF store.currentCanvasId = JNull \/ ~store.isDirty
                THEN [store EXCEPT !.timer = FALSE]
                ELSE [store EXCEPT !.timer = FALSE, !.saving = store.content]
    /\ UNCHANGED <<blob, cache, now, firestore, last, lastWrite, resp, calls>>

\* canvasApi.update resolves: saveCanvas sets isDirty = false
SaveResolves ==
    /\ store.saving # NoContent
    /\ store' = [store EXCEPT !.sent = store.saving, !.saving = NoContent,
                              !.isDirty = FALSE, !.timer = AutoSaveEffect(store, FALSE)]
    /\ UNCHANGED <<blob, cache, now, firestore, last, lastWrite, resp, calls>>

\* canvasApi.update rejects: the catch logs the error, and saveCanvas sets
\* isDirty = false all the same
SaveRejects ==
    /\ store.saving # NoContent
    /\ store' = [store EXCEPT !.saving = NoContent,
                              !.isDirty = FALSE, !.timer = AutoSaveEffect(store, FALSE)]
    /\ UNCHANGED <<blob, cache, now, firestore, last, lastWrite, resp, calls>>

\* Canvas c1 is open in the client as it was loaded
InitAutoSave ==
    /\ blob = EmptyStore
    /\ cache = EmptyStore
    /\ now = 0
    /\ firestore = EmptyStore
    /\ last = NoRequest
    /\ lastWrite = NoWrite
    /\ resp = Ok
    /\ calls = EmptyStore
    /\ store = [ClosedStore EXCEPT !.currentCanvasId = "c1", !.content = LoadedContent,
                                   !.sent = LoadedContent]

NextAutoSave ==
    \/ \E v \in Payloads : UpdateNodeData(v)
    \/ \E v \in Payloads : AddEdge(v)
    \/ TimerFires
    \/ SaveResolves
    \/ SaveRejects

SpecAutoSave == InitAutoSave /\ [][NextAutoSave]_vars

\* The timeout fires when it is due, a request in flight settles, and a save
\* that is attempted again and again succeeds at last
FairAutoSave ==
    /\ SpecAutoSave
    /\ WF_vars(TimerFires)
    /\ WF_vars(SaveResolves \/ SaveRejects)
    /\ SF_vars(SaveResolves)

\* ------------------------------------------------------------ claims
\* The nodes of a body have distinct ids and each carries a non-empty payload.
AllCarryData(nodes) ==
    /\ \A i \in 1..Len(nodes) : HasTruthy(nodes[i], "data")
    /\ \A i, j \in 1..Len(nodes) : nodes[i].id = nodes[j].id => i = j

\* getCanvas was served right after the createCanvas of the same canvas and tenant
GetAfterCreate ==
    /\ last.op = "getCanvas"
    /\ lastWrite.op = "createCanvas"
    /\ lastWrite.u = last.u
    /\ lastWrite.id = last.id

\* C1: createCanvas of nodes with distinct ids, each carrying a non-empty payload,
\* followed by getCanvas of the same canvas by the same tenant with no write in
\* between, returns every node with the payload supplied for it.
C1_RoundTrip ==
    (GetAfterCreate /\ AllCarryData(lastWrite.body.nodes)) =>
        /\ resp.status = 200
        /\ Len(resp.body.nodes) = Len(lastWrite.body.nodes)
        /\ \A i \in 1..Len(lastWrite.body.nodes) :
              /\ resp.body.nodes[i].id = lastWrite.body.nodes[i].id
              /\ Get(resp.body.nodes[i], "data") = lastWrite.body.nodes[i].data

C1_Witness ==
    /\ GetAfterCreate
    /\ AllCarryData(lastWrite.body.nodes)
    /\ Len(lastWrite.body.nodes) = 2
    /\ resp.status = 200

\* The stored node has neither a bundle entry nor a legacy _dataRef.
NoDataSource(u, c, node) ==
    /\ ~Has(node, "_dataRef")
    /\ ~(Exists(blob, BundlePath(u, c)) /\ HasTruthy(blob[BundlePath(u, c)], node.id))

\* C5: every node of a canvas returned by getCanvas has a defined data payload,
\* and a node with neither a bundle entry nor a _dataRef has the empty default,
\* whether or not a bundle document exists.
C5_SafeDefault ==
    (last.op = "getCanvas" /\ resp.status = 200 /\ Has(resp.body, "nodes")) =>
        \A i \in 1..Len(resp.body.nodes) :
            /\ Has(resp.body.nodes[i], "data")
            /\ resp.body.nodes[i].data # JNull
            /\ NoDataSource(last.u, last.id, blob[CvPath(last.u, last.id)].nodes[i])
                  => resp.body.nodes[i].data = DefaultData

\* The canvas documents stored for tenant u
StoredCanvases(u) == {p \in DOMAIN blob : Len(p) = 3 /\ p[1] = u /\ p[2] = "canvases"}

\* C8: no node of a stored canvas document has a data field, and every payload
\* stripped by the latest write that carried nodes is in the canvas's bundle
\* under its node id.
C8_NoInlineData ==
    /\ \A u \in Tenants : \A p \in StoredCanvases(u) :
          Has(blob[p], "nodes") =>
              \A i \in 1..Len(blob[p].nodes) : ~Has(blob[p].nodes[i], "data")
    /\ (/\ lastWrite.op \in {"createCanvas", "updateCanvas", "seed"}
        /\ Has(lastWrite.body, "nodes")) =>
          \A i \in 1..Len(lastWrite.body.nodes) :
              HasTruthy(lastWrite.body.nodes[i], "data") =>
                  /\ Exists(blob, BundlePath(lastWrite.u, lastWrite.id))
                  /\ Get(blob[BundlePath(lastWrite.u, lastWrite.id)], lastWrite.body.nodes[i].id)
                        = lastWrite.body.nodes[i].data

\* The index of a type as the storage layer reads it
IndexView(b, c, t, u, type) == ReadIndex(b, c, t, u, type).items
StoredIndex(b, u, type) == IF Exists(b, IndexPath(u, type)) THEN b[IndexPath(u, type)] ELSE <<>>
IdsOf(items) == {Get(items[i], "id") : i \in 1..Len(items)}

\* C2: after deleteWorkspace(tenant, W), the bundle of every canvas that belonged
\* to W is absent from the blob store.
C2_CascadeRemovesBundles ==
    lastWrite.op = "deleteWorkspace" =>
        \A i \in 1..Len(lastWrite.body) :
            ~Exists(blob, BundlePath(lastWrite.u, Get(lastWrite.body[i], "id")))

\* C3: a deleteWorkspace(tenant, W) step leaves no document of a canvas whose
\* index entry had workspaceId = W, leaves as canvases index the previous index
\* restricted to the entries of other workspaces, unchanged and in the same
\* order, and leaves neither the workspace document nor an index entry for W.
C3_CascadeRemovesCanvases ==
    [][\A u \in Tenants, w \in WsIds :
          DeleteWorkspace(u, w) =>
              LET before == IndexView(blob, cache, now, u, "canvases")
              IN /\ \A i \in InWorkspace(before, w) :
                        ~Exists(blob', CvPath(u, Get(before[i], "id")))
                 /\ StoredIndex(blob', u, "canvases")
                        = Filter(before, NotInWorkspace(before, w))
                 /\ IndexView(blob', cache', now', u, "canvases")
                        = StoredIndex(blob', u, "canvases")
                 /\ ~Exists(blob', WsPath(u, w))
                 /\ w \notin IdsOf(StoredIndex(blob', u, "workspaces"))
                 /\ w \notin IdsOf(IndexView(blob', cache', now', u, "workspaces"))]_vars

\* deleteWorkspace deleted a canvas, kept another, and removed an existing workspace
C3_Witness ==
    /\ lastWrite.op = "deleteWorkspace"
    /\ last.op = "deleteWorkspace"
    /\ Len(lastWrite.body) >= 1
    /\ Len(StoredIndex(blob, lastWrite.u, "canvases")) >= 1
    /\ Len(StoredIndex(blob, lastWrite.u, "workspaces")) >= 1

\* C4: every blob read made while serving a request of tenant U is of a key
\* under U/, and getCanvas returns no payload stored under another tenant's prefix.
C4_TenantIsolation ==
    /\ \A p \in last.reads : p[1] = last.u
    /\ (last.op = "getCanvas" /\ last.u = "u1" /\ resp.status = 200) =>
          \A i \in 1..Len(resp.body.nodes) : Get(resp.body.nodes[i], "data") # "S"

\* The stored canvas is in the legacy layout: no bundle, and its nodes carry _dataRef
LegacyLayout(u, c) ==
    /\ Exists(blob, CvPath(u, c))
    /\ ~Exists(blob, BundlePath(u, c))
    /\ Has(blob[CvPath(u, c)], "nodes")

Readable(p) == Exists(blob, p) /\ blob[p] # Corrupt

\* C6: getCanvas of a legacy-layout canvas succeeds when a node's file is missing
\* or unreadable; that node gets a placeholder payload, never null or undefined,
\* and every node whose file is readable gets the data of its file.
C6_PartialHydration ==
    (last.op = "getCanvas" /\ LegacyLayout(last.u, last.id)) =>
        /\ resp.status = 200
        /\ \A i \in 1..Len(resp.body.nodes) :
              LET stored == blob[CvPath(last.u, last.id)].nodes[i]
              IN Has(stored, "_dataRef") =>
                    /\ Has(resp.body.nodes[i], "data")
                    /\ resp.body.nodes[i].data # JNull
                    /\ Readable(stored["_dataRef"]) =>
                          resp.body.nodes[i].data = blob[stored["_dataRef"]]

\* The canvas of u is stored as the migration wrote it from the legacy store.
AsMigrated(u, c) ==
    /\ Exists(firestore, CvPath(u, c))
    /\ LegacyLayout(u, c)
    /\ blob[CvPath(u, c)] = MigratedCanvas(u, c, firestore[CvPath(u, c)])
    /\ \A i \in 1..Len(firestore[CvPath(u, c)].nodes) :
          LET node == firestore[CvPath(u, c)].nodes[i]
          IN HasTruthy(node, "data") =>
                /\ Exists(blob, LegacyPath(u, c, node.id))
                /\ blob[LegacyPath(u, c, node.id)] = node.data

\* C7: getCanvas of a canvas stored as the migration writes it returns every
\* data-carrying node with its original payload and without _dataRef.
C7_LegacyRoundTrip ==
    (last.op = "getCanvas" /\ AsMigrated(last.u, last.id)) =>
        /\ resp.status = 200
        /\ Len(resp.body.nodes) = Len(firestore[CvPath(last.u, last.id)].nodes)
        /\ \A i \in 1..Len(resp.body.nodes) :
              LET node == firestore[CvPath(last.u, last.id)].nodes[i]
              IN HasTruthy(node, "data") =>
                    /\ resp.body.nodes[i].id = node.id
                    /\ Get(resp.body.nodes[i], "data") = node.data
                    /\ ~Has(resp.body.nodes[i], "_dataRef")

C7_Witness ==
    /\ last.op = "getCanvas"
    /\ last.u = "u1"
    /\ AsMigrated(last.u, last.id)
    /\ Len(firestore[CvPath("u1", "c1")].nodes) = 2
    /\ \A i \in 1..2 : HasTruthy(firestore[CvPath("u1", "c1")].nodes[i], "data")
    /\ Len(resp.body.nodes) = 2

\* The ids of the documents stored under {u}/{type}/
DocIds(u, type) == {p[3] : p \in {q \in DOMAIN blob : Len(q) = 3 /\ q[1] = u /\ q[2] = type}}

\* C9: the ids in the index of a type are the ids of the documents stored under
\* the type's prefix, and every index entry has a defined id.
C9_IndexEnumeratesLive ==
    \A u \in Tenants, type \in {"workspaces", "canvases"} :
        /\ IdsOf(StoredIndex(blob, u, type)) = DocIds(u, type)
        /\ Undef \notin IdsOf(StoredIndex(blob, u, type))

\* Entries the routes hand to upsertIndex
UpsertEntries(type) ==
    IF type = "workspaces" THEN Workspaces
    ELSE {CanvasMetaForIndex(c) : c \in Canvases} \cup {CanvasMetaForIndex([updatedAt |-> 1])}

\* C10: upsertIndex called twice with the same entry leaves the index the first
\* call left, of the same length, with exactly one entry of that id.
C10_UpsertIdempotent ==
    \A type \in {"workspaces", "canvases"} : \A e \in UpsertEntries(type) :
        \A dt \in {0, CACHE_TTL} :
            LET once == UpsertIndex(blob, cache, now, "u1", type, e)
                twice == UpsertIndex(once.blob, once.cache, now + dt, "u1", type, e)
                items == StoredIndex(twice.blob, "u1", type)
            IN /\ twice.blob = once.blob
               /\ IndexView(twice.blob, twice.cache, now + dt, "u1", type)
                     = IndexView(once.blob, once.cache, now, "u1", type)
               /\ Len(items) = Len(StoredIndex(once.blob, "u1", type))
               /\ Cardinality({i \in 1..Len(items) : Get(items[i], "id") = Get(e, "id")}) = 1

\* upsertIndex has replaced and appended: the index holds two canvases, the one
\* written last not in the last place
C10_Witness ==
    /\ lastWrite.op = "createCanvas"
    /\ Len(StoredIndex(blob, "u1", "canvases")) = 2
    /\ Get(StoredIndex(blob, "u1", "canvases")[1], "id") = lastWrite.id
    /\ Len(IndexView(blob, cache, now, "u1", "canvases")) = 2

\* Ids a route may hand to removeFromIndex: those of the entities and a foreign one
RemovableIds(type) == (IF type = "workspaces" THEN WsIds ELSE CvIds) \cup {"zz"}

\* C11: removeFromIndex(tenant, type, id) leaves an index with no entry of that
\* id and with every other entry retained, unchanged and in order; for an id
\* that is not in the index the index contents are the same as before.
C11_RemovalTotal ==
    \A type \in {"workspaces", "canvases"} : \A id \in RemovableIds(type) :
        LET before == IndexView(blob, cache, now, "u1", type)
            after == RemoveFromIndex(blob, cache, now, "u1", type, id)
            stored == StoredIndex(after.blob, "u1", type)
        IN /\ id \notin IdsOf(stored)
           /\ stored = Filter(before, {i \in 1..Len(before) : Get(before[i], "id") # id})
           /\ IndexView(after.blob, after.cache, now, "u1", type) = stored
           /\ id \notin IdsOf(before) => stored = before

\* removeFromIndex has removed one canvas entry and kept another
C11_Witness ==
    /\ lastWrite.op = "deleteCanvas"
    /\ Len(StoredIndex(blob, "u1", "canvases")) = 1
    /\ lastWrite.id \notin IdsOf(StoredIndex(blob, "u1", "canvases"))
    /\ lastWrite.id \notin IdsOf(IndexView(blob, cache, now, "u1", "canvases"))

\* The stored canvas document as getCanvas returns it
Hydrated(b, u, id) ==
    IF Has(b[CvPath(u, id)], "nodes")
    THEN With(b[CvPath(u, id)], "nodes", HydrateNodeData(b, b[CvPath(u, id)].nodes, u, id).nodes)
    ELSE b[CvPath(u, id)]

\* C13: a getCanvas step writes nothing to the blob store or the index; when no
\* canvas document exists for the id it answers 404 and its only read is of the
\* document's key (no hydration read); when the document exists it answers 200
\* with the document hydrated.
C13_StrictNotFound ==
    [][\A u \in Tenants, id \in CvIds :
          GetCanvas(u, id) =>
              /\ blob' = blob
              /\ cache' = cache
              /\ IF ~Exists(blob, CvPath(u, id))
                 THEN /\ resp'.status = 404
                      /\ last'.reads = {CvPath(u, id)}
                 ELSE /\ resp'.status = 200
                      /\ resp'.body = Hydrated(blob, u, id)]_vars

\* getCanvas answered 404 for a canvas that had been stored and was deleted
C13_Witness ==
    /\ last.op = "getCanvas"
    /\ resp.status = 404
    /\ lastWrite.op = "deleteCanvas"
    /\ lastWrite.id = last.id
    /\ ~Exists(blob, CvPath(last.u, last.id))

\* No node of the body carries data (the body may have no nodes at all)
NoneCarryData(body) ==
    Has(body, "nodes") => \A i \in 1..Len(body.nodes) : ~HasTruthy(body.nodes[i], "data")

\* The bundle of canvas c is the same in b1 and b2: absent in both or equal
SameBundle(b1, b2, u, c) ==
    /\ Exists(b1, BundlePath(u, c)) = Exists(b2, BundlePath(u, c))
    /\ Exists(b1, BundlePath(u, c)) => b1[BundlePath(u, c)] = b2[BundlePath(u, c)]

\* C15: when no supplied node carries data, offloadNodeData leaves the blob
\* store as it is, and a createCanvas or updateCanvas step with such a body
\* neither creates a bundle for the canvas nor changes an existing one.
C15_NoEmptyBundle ==
    [][(/\ lastWrite'.op \in {"createCanvas", "updateCanvas"}
        /\ NoneCarryData(lastWrite'.body)) =>
          /\ OffloadNodeData(blob, lastWrite'.body, lastWrite'.u, lastWrite'.id).blob = blob
          /\ SameBundle(blob, blob', lastWrite'.u, lastWrite'.id)]_vars

\* updateCanvas with nodes none of which carries data, on a canvas that has a bundle
C15_Witness ==
    /\ lastWrite.op = "updateCanvas"
    /\ Has(lastWrite.body, "nodes")
    /\ Len(lastWrite.body.nodes) = 2
    /\ NoneCarryData(lastWrite.body)
    /\ Exists(blob, BundlePath(lastWrite.u, lastWrite.id))

\* The key of the document an index entry of the type stands for
DocPath(u, type, id) == <<u, type, id>>

\* The canvas index entry the stored document d should have
ProjectionOf(d) ==
    Spread(Pick(d, {"id", "title", "workspaceId", "createdAt", "updatedAt"}),
           [nodeCount |-> IF Has(d, "nodes") THEN Len(d.nodes) ELSE 0])

\* C20: every entry of an index stands for the stored document of its id; a
\* workspaces entry is identical to that document and a canvases entry is its
\* projection {id, title, workspaceId, createdAt, updatedAt, nodeCount}, with
\* nodeCount the number of nodes of the stored document.
C20_IndexIsProjection ==
    \A type \in {"workspaces", "canvases"} :
        LET items == StoredIndex(blob, "u1", type)
        IN \A i \in 1..Len(items) :
              LET p == DocPath("u1", type, Get(items[i], "id"))
              IN /\ Exists(blob, p)
                 /\ items[i] = IF type = "workspaces" THEN blob[p] ELSE ProjectionOf(blob[p])

\* C16: no step of the migration, completed or aborted, deletes or modifies a
\* document of the legacy source store: the source store is the same after every
\* step as before it.
C16_MigrationAdditive ==
    [][firestore' = firestore]_vars

\* A canvas with data-carrying nodes was migrated, stripped of its data, and
\* its source document still has the nodes' data
C16_Witness ==
    /\ last.op = "migrateCanvas"
    /\ Exists(blob, CvPath(last.u, last.id))
    /\ Exists(firestore, CvPath(last.u, last.id))
    /\ firestore[CvPath(last.u, last.id)] = lastWrite.body
    /\ \E i \in 1..Len(lastWrite.body.nodes) : HasTruthy(lastWrite.body.nodes[i], "data")
    /\ blob[CvPath(last.u, last.id)] # firestore[CvPath(last.u, last.id)]

\* The number of times e occurs in the list
Occurrences(items, e) == Cardinality({i \in 1..Len(items) : items[i] = e})
SameEntries(a, b) ==
    /\ Len(a) = Len(b)
    /\ \A i \in 1..Len(a) : Occurrences(a, a[i]) = Occurrences(b, a[i])

\* C14: a listCanvases(tenant, W) step answers with exactly the entries of the
\* canvases index, as readIndex returns it, whose workspaceId is W (all entries
\* when W is omitted), in non-increasing updatedAt order, and leaves the blob
\* store as it was.
C14_ListFiltersAndSorts ==
    [][\A ws \in ListFilters :
          ListCanvases("u1", ws) =>
              LET index == IndexView(blob, cache, now, "u1", "canvases")
                  wanted == IF ws = Undef THEN index ELSE Filter(index, InWorkspace(index, ws))
              IN /\ resp'.status = 200
                 /\ SameEntries(resp'.body, wanted)
                 /\ \A i, j \in 1..Len(resp'.body) :
                       i < j => UpdatedAt(resp'.body[i]) >= UpdatedAt(resp'.body[j])
                 /\ blob' = blob]_vars

\* listCanvases of workspace w1 left out the canvas of w2 and put the two canvases
\* of w1, stored oldest first, newest first
C14_Witness ==
    /\ last.op = "listCanvases"
    /\ last.id = "w1"
    /\ Len(StoredIndex(blob, "u1", "canvases")) = 3
    /\ Len(resp.body) = 2
    /\ UpdatedAt(resp.body[1]) > UpdatedAt(resp.body[2])
    /\ resp.body # Filter(StoredIndex(blob, "u1", "canvases"),
                          InWorkspace(StoredIndex(blob, "u1", "canvases"), "w1"))

\* The key p belongs to canvas id of tenant u: its document, bundle or a legacy file
OfCanvas(p, u, id) ==
    \/ p = CvPath(u, id)
    \/ p = BundlePath(u, id)
    \/ UnderDir(LegacyDir(u, id), p)

\* C12: a deleteCanvas(tenant, id) step leaves no bundle, no legacy file and no
\* document of the canvas and no index entry for id, stored or cached; every
\* key that does not belong to the canvas, the index document apart, is stored
\* with the value it had, no other key appears, and the index keeps the entries
\* of the other canvases unchanged.
C12_DeleteCanvasComplete ==
    [][\A id \in CvIds :
          DeleteCanvas("u1", id) =>
              LET before == IndexView(blob, cache, now, "u1", "canvases")
              IN /\ \A p \in DOMAIN blob' : ~OfCanvas(p, "u1", id)
                 /\ id \notin IdsOf(StoredIndex(blob', "u1", "canvases"))
                 /\ id \notin IdsOf(IndexView(blob', cache', now', "u1", "canvases"))
                 /\ \A p \in DOMAIN blob :
                       (~OfCanvas(p, "u1", id) /\ p # IndexPath("u1", "canvases")) =>
                           (p \in DOMAIN blob' /\ blob'[p] = blob[p])
                 /\ DOMAIN blob' \subseteq DOMAIN blob \cup {IndexPath("u1", "canvases")}
                 /\ StoredIndex(blob', "u1", "canvases")
                       = Filter(before, {i \in 1..Len(before) : Get(before[i], "id") # id})]_vars

\* deleteCanvas ran while the tenant's other canvas had a document, a bundle, both
\* legacy files and an index entry, all of which are still there
C12_Witness ==
    /\ lastWrite.op = "deleteCanvas"
    /\ \E c \in CvIds \ {lastWrite.id} :
          /\ Exists(blob, CvPath("u1", c))
          /\ Exists(blob, BundlePath("u1", c))
          /\ \A n \in NodeIds : Exists(blob, LegacyPath("u1", c, n))
          /\ IdsOf(StoredIndex(blob, "u1", "canvases")) = {c}

\* The entries of a list, as a set
Entries(items) == {items[i] : i \in 1..Len(items)}

\* C17: nothing orders two upsertIndex calls on one index.  Each call hands to
\* its write an array holding its own entry, and once both calls have returned
\* the stored index is the array one of them wrote, whole: it holds that call's
\* entry, and nothing makes it hold the other's.
C17_LastWriteStands ==
    /\ \A p \in DOMAIN calls :
          (calls[p].op = "upsertIndex" /\ calls[p].pc \in {"write", "ack", "done"}) =>
              calls[p].item \in Entries(calls[p].snapshot)
    /\ (AllDone /\ \A p \in CallIds : calls[p].op = "upsertIndex") =>
          \E p \in CallIds :
              /\ StoredIndex(blob, "u1", calls[p].type) = calls[p].snapshot
              /\ calls[p].item \in Entries(StoredIndex(blob, "u1", calls[p].type))

\* Two upsertIndex calls for distinct ids have both returned and the stored index
\* has an entry for only one of the two ids: the other update is lost
C17_Witness ==
    /\ AllDone
    /\ \A p \in CallIds : calls[p].op = "upsertIndex" /\ calls[p].type = "workspaces"
    /\ calls["p1"].item.id # calls["p2"].item.id
    /\ \E p \in CallIds :
          IdsOf(StoredIndex(blob, "u1", "workspaces")) = {calls[p].item.id}

\* C18: after two concurrent updateCanvas calls for one canvas, each with a full
\* nodes list with data, have both completed, getCanvas returns the nodes of one
\* of the two updates as supplied: the stored node list and the bundle are of
\* the same writer, and no node has a payload that neither writer supplied.
C18_RaceDropsOneWriter ==
    (/\ AllDone
     /\ \A p \in CallIds : calls[p].op = "updateCanvas"
     /\ last.op = "getCanvas") =>
        /\ resp.status = 200
        /\ \E p \in CallIds :
              /\ resp.body.nodes = calls[p].body.nodes
              /\ blob[CvPath("u1", "c1")].nodes = StripAll(calls[p].body.nodes)
              /\ blob[BundlePath("u1", "c1")] = BundleOf(calls[p].body.nodes)
        /\ \A i \in 1..Len(resp.body.nodes) :
              \E p \in CallIds : \E j \in 1..Len(calls[p].body.nodes) :
                  Get(resp.body.nodes[i], "data") = calls[p].body.nodes[j].data

\* The index lists a canvas of workspace w
ListsCanvasOf(items, w) == \E i \in 1..Len(items) : Get(items[i], "workspaceId") = w

\* C19: in an execution of deleteWorkspace(tenant, W) with no concurrent request,
\* also one cut short by a throwing blob call or a crash at any await, the
\* deletion of the workspace document starts only when every child canvas
\* document is gone and the canvases index, stored and cached, lists no canvas
\* of W; and when W was in the workspaces index at the start, W is never absent
\* from the stored workspaces index while the canvases index lists a canvas of W.
C19_ChildrenBeforeParent ==
    \A p \in DOMAIN calls :
        calls[p].op = "deleteWorkspace" =>
            /\ calls[p].pc \in {"deleteWs", "removeWs", "writeWsIndex", "done"} =>
                  /\ \A i \in 1..Len(calls[p].toDelete) :
                        ~Exists(blob, CvPath("u1", Get(calls[p].toDelete[i], "id")))
                  /\ ~ListsCanvasOf(StoredIndex(blob, "u1", "canvases"), calls[p].id)
                  /\ ~ListsCanvasOf(IndexView(blob, cache, now, "u1", "canvases"), calls[p].id)
            /\ calls[p].pc \notin {"deleteWs", "removeWs", "writeWsIndex", "done"} =>
                  /\ Exists(blob, WsPath("u1", calls[p].id)) = calls[p].listed
                  /\ (calls[p].id \in IdsOf(StoredIndex(blob, "u1", "workspaces"))) = calls[p].listed
            /\ (/\ calls[p].listed
                /\ calls[p].id \notin IdsOf(StoredIndex(blob, "u1", "workspaces"))) =>
                  ~ListsCanvasOf(StoredIndex(blob, "u1", "canvases"), calls[p].id)

\* deleteWorkspace of a listed workspace with a child canvas was cut short by a
\* crash after the workspace document was deleted and before the workspaces
\* index was rewritten; a canvas of another workspace is still listed
C19_Witness ==
    /\ Started("p1")
    /\ calls["p1"].op = "deleteWorkspace"
    /\ calls["p1"].ended = "crashed"
    /\ calls["p1"].pc = "removeWs"
    /\ calls["p1"].listed
    /\ Len(calls["p1"].toDelete) = 1
    /\ ~Exists(blob, WsPath("u1", calls["p1"].id))
    /\ Len(StoredIndex(blob, "u1", "canvases")) = 1

\* The stored canvas document, {} when there is none
StoredOrEmpty(b, u, id) == IF Exists(b, CvPath(u, id)) THEN b[CvPath(u, id)] ELSE <<>>

\* C21: an updateCanvas step stores, for every top-level field of the update,
\* the update's value (the nodes without their offloaded data) and keeps every
\* other stored field, an absent document counting as {}; an update without
\* nodes leaves the stored nodes and the bundle as they were, and getCanvas
\* returns the same nodes after it as before it.
C21_ShallowMerge ==
    [][(/\ lastWrite'.op = "updateCanvas"
        /\ UpdateCanvas(lastWrite'.u, lastWrite'.id, lastWrite'.body)) =>
          LET u == lastWrite'.u
              id == lastWrite'.id
              updates == lastWrite'.body
              before == StoredOrEmpty(blob, u, id)
              after == StoredOrEmpty(blob', u, id)
          IN /\ Exists(blob', CvPath(u, id))
             /\ DOMAIN after = DOMAIN before \cup DOMAIN updates
             /\ \A f \in DOMAIN updates \ {"nodes"} : after[f] = updates[f]
             /\ Has(updates, "nodes") => after.nodes = StripAll(updates.nodes)
             /\ \A f \in DOMAIN before \ DOMAIN updates : after[f] = before[f]
             /\ ~Has(updates, "nodes") =>
                   /\ SameBundle(blob, blob', u, id)
                   /\ Exists(blob, CvPath(u, id)) =>
                         Get(Hydrated(blob', u, id), "nodes") = Get(Hydrated(blob, u, id), "nodes")]_vars

\* getCanvas after a rename of a canvas with two data-carrying nodes returned the
\* new title and both nodes with their data
C21_Witness ==
    /\ last.op = "getCanvas"
    /\ lastWrite.op = "updateCanvas"
    /\ ~Has(lastWrite.body, "nodes")
    /\ resp.status = 200
    /\ Get(resp.body, "title") = "t2"
    /\ Has(resp.body, "nodes")
    /\ Len(resp.body.nodes) = 2
    /\ \A i \in 1..2 : Get(resp.body.nodes[i], "data") = PayloadOf(resp.body.nodes[i].id)

\* The index writes the routes make from the current state: writeIndex of the
\* index without a workspace's canvases, upsertIndex of an entry, removeFromIndex
IndexWrites(type) ==
    LET view == IndexView(blob, cache, now, "u1", type)
    IN {WriteIndex(blob, cache, now, "u1", type, Filter(view, NotInWorkspace(view, w))) : w \in WsIds}
       \cup {UpsertIndex(blob, cache, now, "u1", type, e) : e \in UpsertEntries(type)}
       \cup {RemoveFromIndex(blob, cache, now, "u1", type, id) : id \in RemovableIds(type)}

\* C22: once writeIndex, upsertIndex or removeFromIndex has completed, readIndex
\* of the same tenant and type, at once or any time before the cache lifetime
\* is over, is served from the cache without a blob read and returns exactly
\* the entries that were written to the index document.
C22_ReadYourWrites ==
    \A type \in {"workspaces", "canvases"} : \A w \in IndexWrites(type) :
        \A dt \in {0, CACHE_TTL - 1} :
            LET r == ReadIndex(w.blob, w.cache, now + dt, "u1", type)
            IN /\ r.reads = {}
               /\ r.items = w.blob[IndexPath("u1", type)]

\* An index write refreshed a cache entry that had expired: the entry is as old
\* as the write and holds the stored entries
C22_Witness ==
    /\ last.op = "deleteWorkspace"
    /\ now = CACHE_TTL
    /\ CacheKey("u1", "canvases") \in DOMAIN cache
    /\ cache[CacheKey("u1", "canvases")].t = now
    /\ Len(cache[CacheKey("u1", "canvases")].d) = 1
    /\ cache[CacheKey("u1", "canvases")].d = StoredIndex(blob, "u1", "canvases")

\* The cache entry of the key is at least a cache lifetime old, or there is none
Expired(k) == k \in DOMAIN cache => now - cache[k].t >= CACHE_TTL

C24_AbsentReadsNull ==
    \A p \in DOMAIN calls : calls[p].op = "readJSON" => calls[p].pc # "raised"

\* C25: once a blob call of an operation has failed and the operation has
\* answered with a server error, the operation takes no later step: nothing in
\* the blob store changes and none of its chains moves on.
C25_NoStepAfterFailure ==
    [][\A p \in DOMAIN calls :
          (calls[p].op = "deleteWorkspace" /\ calls[p].ended = "failed")
              => /\ blob' = blob
                 /\ calls'[p] = calls[p]]_vars

\* getCanvas before any update returns the canvas as it was created
CreatedIsServed ==
    (calls = EmptyStore /\ last.op = "getCanvas" /\ lastWrite.op = "createCanvas") =>
        resp.body = lastWrite.body

\* C26: a getCanvas after an updateCanvas that failed (at the bundle write, the
\* document read, the document write or the index write) returns the canvas that
\* was there before the update: the canvas as it was created, every node with
\* the payload it had.
C26_FailedUpdateUnobservable ==
    (/\ Started("p1")
     /\ calls["p1"].op = "updateCanvas"
     /\ calls["p1"].pc \in {"failed", "readFailed", "writeFailed"}
     /\ lastWrite.op = "createCanvas"
     /\ last.op = "getCanvas") =>
        /\ resp.status = 200
        /\ resp.body = lastWrite.body

\* C27: when the write of the index document inside upsertIndex has failed,
\* readIndex returns the index as it is stored, which is the index as it was
\* before the call: the cache shows no entry that was not written.
C27_FailedUpsertUnobservable ==
    \A p \in DOMAIN calls :
        calls[p].pc = "writeFailed" =>
            IndexView(blob, cache, now, "u1", calls[p].type)
                = StoredIndex(blob, "u1", calls[p].type)

\* C28: once the concurrent index-mutating calls on one (tenant, type) have all
\* completed without failure, an unexpired cache entry holds the stored index
\* document.
C28_CoherentAtQuiescence ==
    (AllDone /\ \A p \in CallIds : calls[p].op = "upsertIndex") =>
        \A type \in {"workspaces", "canvases"} :
            GetCachedHit(cache, CacheKey("u1", type), now) =>
                cache[CacheKey("u1", type)].d = StoredIndex(blob, "u1", type)

\* C29: after the migration of a tenant has run to its end on an empty target,
\* listWorkspaces returns every workspace of the legacy store and listCanvases
\* every canvas.
C29_MigratedAreListed ==
    lastWrite.op = "migrateTenant" =>
        /\ last.op = "listWorkspaces" =>
              IdsOf(resp.body) = {p[3] : p \in LegacyDocs(firestore, "u1", "workspaces")}
        /\ (last.op = "listCanvases" /\ last.id = Undef) =>
              IdsOf(resp.body) = {p[3] : p \in LegacyDocs(firestore, "u1", "canvases")}

\* The contents the open canvas can have
Contents == [nodes : {"S"} \cup Payloads, edges : {"S"} \cup Payloads]

\* The store is clean only when its content is the content last sent with success
CleanMeansSent == ~store.isDirty => store.sent = store.content

\* C30: autosave eventually persists every edit: whatever content the store
\* has, that content is in the end sent to the server with success, unless a
\* later edit replaces it first; this for an edit made while a save is in
\* flight and for one whose save fails as well.
C30_EveryEditPersisted ==
    \A v \in Contents : (store.content = v) ~> (store.sent = v \/ store.content # v)

====
